---- MODULE Spec2Model ----
(***************************************************************************)
(* Model of package retry (github.com/AdamSLevy/retry): the Policy types   *)
(* of policy.go and the control loop Run of run.go, together with the      *)
(* time.Timer and context.Context that Run consumes.                       *)
(*                                                                         *)
(* Durations and the clock are counted in abstract ticks.  Go's 64-bit     *)
(* uint and int64 are modelled with IntBits bits.                          *)
(***************************************************************************)
EXTENDS Integers, Sequences, FiniteSets, TLC

\* ------------------------------------------------------------------ bounds
\* Width, in bits, of uint and of int64/time.Duration in the model.
IntBits == 5
\* Op invocations explored per run under Spec.
MaxOps == 5
\* Largest clock value explored.
MaxTime == 4
\* rand.Float64() is explored at the values 0/DrawDen .. (DrawDen-1)/DrawDen.
DrawDen == 4

UintMod == 2 ^ IntBits
MaxInt64 == 2 ^ (IntBits - 1) - 1
MinInt64 == -(2 ^ (IntBits - 1))

\* ------------------------------------------------------------------ errors
\* An error value is a sequence of wrappers ending in a base error; the
\* empty sequence is the nil error.  "wrap" is fmt.Errorf("...: %w", e),
\* which has an Unwrap method; "stop" is errorStop{e}, which has none.
Nil == << >>
Canceled == <<"Canceled">>
DeadlineExceeded == <<"DeadlineExceeded">>

\* errorstop.go: ErrorStop(err) returns errorStop{err}, for a nil err too.
ErrorStop(e) == <<"stop">> \o e

\* fmt.Errorf("wrapped: %w", e)
Wrapf(e) == <<"wrap">> \o e

\* err.(errorStop)
IsErrorStop(e) == Len(e) > 0 /\ Head(e) = "stop"

\* errors.Is(err, target): compare, then follow Unwrap while there is one.
RECURSIVE ErrorsIs(_, _)
ErrorsIs(e, target) ==
    IF e = Nil THEN FALSE
    ELSE IF e = target THEN TRUE
    ELSE IF Head(e) = "wrap" THEN ErrorsIs(Tail(e), target)
    ELSE FALSE

\* The values op is taken to return.
OpResults ==
    { Nil, <<"failed">>, <<"fatal">>,
      Canceled, DeadlineExceeded, Wrapf(Canceled), Wrapf(DeadlineExceeded),
      ErrorStop(<<"failed">>), ErrorStop(Nil), ErrorStop(Canceled) }

\* The filter argument of Run: nil, or one of two caller functions.
\*   "classify" passes a fatal error up wrapped in ErrorStop and censors a
\*              deadline error (the shape of the filter of the package
\*              example);
\*   "strict"   turns a nil result into an error.
Filters == { "nil", "classify", "strict" }

ApplyFilter(f, e) ==
    CASE f = "nil" -> e
      [] f = "classify" ->
            IF ErrorsIs(e, <<"fatal">>) THEN ErrorStop(e)
            ELSE IF ErrorsIs(e, DeadlineExceeded) THEN Nil
            ELSE e
      [] f = "strict" -> IF e = Nil THEN <<"failed">> ELSE e

\* ---------------------------------------------------------------- policies
\* policy.go:32
Stop == -1

Immediate == [k |-> "Immediate"]
Constant(d) == [k |-> "Constant", d |-> d]
Linear(initial, increment) ==
    [k |-> "Linear", Initial |-> initial, Increment |-> increment]
\* Multiplier is the float64 mnum/mden.
Exponential(initial, mnum, mden) ==
    [k |-> "Exponential", Initial |-> initial, Multiplier |-> <<mnum, mden>>]
LimitAttempts(limit, inner) ==
    [k |-> "LimitAttempts", Limit |-> limit, Policy |-> inner]
LimitTotal(limit, inner) ==
    [k |-> "LimitTotal", Limit |-> limit, Policy |-> inner]
Max(cap, inner) == [k |-> "Max", Cap |-> cap, Policy |-> inner]
\* Factor is the float64 fnum/fden.
Randomize(fnum, fden, inner) ==
    [k |-> "Randomize", Factor |-> <<fnum, fden>>, Policy |-> inner]

\* int64(u) for a uint u: the same bits read as a signed number.
Int64OfUint(u) == IF u > MaxInt64 THEN u - UintMod ELSE u

InInt64(x) == MinInt64 <= x /\ x <= MaxInt64

ImmediateWait == 0

ConstantWait(c) == c.d

\* Linear.Wait: overflow.Mul64 and overflow.Add64 report ok exactly when the
\* exact result is representable.
LinearWait(l, attempts) ==
    LET n  == Int64OfUint((attempts - 1) % UintMod)
        mx == l.Increment * n
    IN  IF InInt64(mx) /\ InInt64(l.Initial + mx)
        THEN l.Initial + mx
        ELSE MaxInt64

\* LimitAttemptsWait comparing with > in place of >=.
LimitAttemptsWaitStrict(l, attempts, innerWait) ==
    IF attempts > l.Limit THEN Stop ELSE innerWait

\* LimitAttemptsWait stopping one attempt early.
LimitAttemptsWaitEarly(l, attempts, innerWait) ==
    IF attempts + 1 >= l.Limit THEN Stop ELSE innerWait

LimitAttemptsWait(l, attempts, innerWait) ==
    IF attempts >= l.Limit THEN Stop ELSE innerWait

\* LimitTotalWait comparing with > in place of >=.
LimitTotalWaitStrict(l, total, innerWait) ==
    IF total > l.Limit THEN Stop ELSE innerWait

LimitTotalWait(l, total, innerWait) ==
    IF total >= l.Limit THEN Stop ELSE innerWait

\* MaxWait that never clamps.
MaxWaitNoClamp(m, innerWait) == innerWait

\* MaxWait that returns Cap whatever the inner result.
MaxWaitAlwaysCap(m, innerWait) == m.Cap

MaxWait(m, innerWait) ==
    IF innerWait > m.Cap THEN m.Cap ELSE innerWait

\* What one call of Randomize.Wait takes from outside the program: the value
\* num/DrawDen of rand.Float64(), and the architecture the package was built
\* for, which decides what converting an out-of-range float64 to int64 gives
\* (the language leaves it implementation-dependent: amd64 yields the
\* smallest int64, arm64 saturates).
Archs == {"amd64", "arm64"}
Draws == [num : 0 .. DrawDen - 1, arch : Archs]
NoDraw == [num |-> 0, arch |-> "amd64"]

\* float64(x) of an int64 x, and of the constant math.MaxInt64: float64 has
\* fewer mantissa bits than int64 has value bits, so the largest int64
\* rounds up to 2^(IntBits-1); the other values of the model are exact.
Float64(x) == IF x = MaxInt64 THEN MaxInt64 + 1 ELSE x

\* The integer part of the rational n/d, d > 0 (truncation toward zero).
Trunc(n, d) == IF n >= 0 THEN n \div d ELSE -((-n) \div d)

\* time.Duration(v) of the float64 v = n/d.
DurationOfFloat(n, d, arch) ==
    IF InInt64(Trunc(n, d)) THEN Trunc(n, d)
    ELSE IF arch = "amd64" THEN MinInt64 ELSE MaxInt64

\* The loop of Exponential.Wait, with n iterations left: the float64 wait
\* is num/den, the multiplier mn/md (mn >= 0), and overflow is
\* float64(math.MaxInt64) * md / mn.  The result is the final wait as
\* <<numerator, denominator>>.
RECURSIVE ExponentialLoop(_, _, _, _, _)
ExponentialLoop(num, den, n, mn, md) ==
    IF n = 0 \/ num = 0 \/ num * mn > Float64(MaxInt64) * md * den
    THEN <<num, den>>
    ELSE ExponentialLoop(num * mn, den * md, n - 1, mn, md)

\* Exponential.Wait: `for i := uint(1); i < attempts; i++` makes
\* attempts - 1 iterations, none for attempts = 0.
ExponentialWait(e, attempts, arch) ==
    LET w == ExponentialLoop(Float64(e.Initial), 1,
                             IF attempts = 0 THEN 0 ELSE attempts - 1,
                             e.Multiplier[1], e.Multiplier[2])
    IN  DurationOfFloat(w[1], w[2], arch)

\* RandomizeWait without the early return for wait <= 0.
RandomizeWaitAlwaysDraws(r, innerWait, draw) ==
    LET fn   == r.Factor[1]
        fd   == r.Factor[2]
        min  == Float64(innerWait) * (fd - fn)
        max0 == Float64(innerWait) * (fd + fn)
        max  == IF max0 > Float64(MaxInt64) * fd
                THEN Float64(MaxInt64) * fd ELSE max0
    IN  DurationOfFloat(min * DrawDen + draw.num * (max - min + fd),
                        fd * DrawDen, draw.arch)

\* Randomize.Wait.  min and max are kept as numerators over fd, the
\* returned float64 as a numerator over fd * DrawDen.
RandomizeWait(r, innerWait, draw) ==
    IF innerWait <= 0 THEN innerWait
    ELSE
    LET fn   == r.Factor[1]
        fd   == r.Factor[2]
        min  == Float64(innerWait) * (fd - fn)
        max0 == Float64(innerWait) * (fd + fn)
        max  == IF max0 > Float64(MaxInt64) * fd
                THEN Float64(MaxInt64) * fd ELSE max0
    IN  DurationOfFloat(min * DrawDen + draw.num * (max - min + fd),
                        fd * DrawDen, draw.arch)

\* Policy.Wait, dispatched on the dynamic type of the policy; draw is what
\* a Randomize in the chain draws and the architecture the float64
\* conversions of the chain run on.
RECURSIVE WaitDraw(_, _, _, _)
WaitDraw(pol, attempts, total, draw) ==
    CASE pol.k = "Immediate" -> ImmediateWait
      [] pol.k = "Constant" -> ConstantWait(pol)
      [] pol.k = "Linear" -> LinearWait(pol, attempts)
      [] pol.k = "Exponential" -> ExponentialWait(pol, attempts, draw.arch)
      [] pol.k = "LimitAttempts" ->
            LimitAttemptsWait(pol, attempts,
                              WaitDraw(pol.Policy, attempts, total, draw))
      [] pol.k = "LimitTotal" ->
            LimitTotalWait(pol, total,
                           WaitDraw(pol.Policy, attempts, total, draw))
      [] pol.k = "Max" ->
            MaxWait(pol, WaitDraw(pol.Policy, attempts, total, draw))
      [] pol.k = "Randomize" ->
            RandomizeWait(pol, WaitDraw(pol.Policy, attempts, total, draw),
                          draw)

\* Policy.Wait of a policy that draws nothing.
Wait(pol, attempts, total) == WaitDraw(pol, attempts, total, NoDraw)

\* The policies Run is explored with.
Policies ==
    { Immediate,
      Constant(1), Constant(-3),
      Linear(0, 1),
      LimitAttempts(1, Constant(1)),
      LimitAttempts(2, Immediate),
      LimitAttempts(3, Constant(1)),
      LimitTotal(2, Constant(1)),
      Max(1, Linear(1, 1)) }

\* --------------------------------------------------------------- run state
VARIABLES
    pc,          \* position of Run: entry, call, policy, notify, rearm, select, done
    p,           \* the Policy argument
    filter,      \* the filter argument
    hasNotify,   \* whether notify is non-nil
    ctxNil,      \* whether the ctx argument is nil
    ctxDone,     \* whether ctx.Done() is closed
    cancelAt,    \* when ctx became done: never, entry (before Run was
                 \* entered), select (Run was in the select) or running
    now,         \* the wall clock
    start,       \* local start
    attempt,     \* local attempt
    err,         \* local err: the latest filtered result of op
    wait,        \* local wait
    ret,         \* the value Run returned
    exit,        \* the return statement Run left through
    opCount,     \* number of op invocations
    waitCalls,   \* number of calls of p.Wait
    lastQuery,   \* arguments of the latest call of p.Wait
    notifyLog,   \* arguments of the calls of notify, in order
    tmrCreated,  \* number of timers created by timeNewTimer
    tmrArmed,    \* whether the timer is running
    tmrWhen,     \* the time the running timer expires
    tmrC,        \* number of values buffered in the timer's channel (0 or 1)
    tmrResets,   \* number of calls of tmr.Reset
    tmrStops,    \* number of calls of tmr.Stop
    peer         \* the other call of Run in the program, if there is one,
                 \* as it stands while this one takes its steps

\* What no step of Run writes: its arguments and the other call of Run.
cfgVars == <<p, filter, hasNotify, ctxNil, peer>>
timerVars == <<tmrCreated, tmrArmed, tmrWhen, tmrC, tmrResets, tmrStops>>
histVars == <<opCount, waitCalls, lastQuery, notifyLog>>
localVars == <<start, attempt, err, wait, ret, exit>>
vars == <<pc, cfgVars, ctxDone, cancelAt, now, localVars, histVars, timerVars>>

\* A program with a single call of Run.
NoPeer == [turn |-> "none"]

\* History counters stop counting at MaxOps.
Bump(n) == IF n < MaxOps THEN n + 1 ELSE n
Record(log, x) == IF Len(log) < MaxOps THEN Append(log, x) ELSE log

Init ==
    /\ pc = "entry"
    /\ p \in Policies
    /\ filter \in Filters
    /\ hasNotify \in BOOLEAN
    /\ ctxNil \in BOOLEAN
    /\ ctxDone \in (IF ctxNil THEN {FALSE} ELSE BOOLEAN)
    /\ cancelAt = IF ctxDone THEN "entry" ELSE "never"
    /\ now \in {0, 1}
    /\ start = 0
    /\ attempt = 0
    /\ err = Nil
    /\ wait = 0
    /\ ret = Nil
    /\ exit = "none"
    /\ opCount = 0
    /\ waitCalls = 0
    /\ lastQuery = <<0, 0>>
    /\ notifyLog = << >>
    /\ tmrCreated = 0
    /\ tmrArmed = FALSE
    /\ tmrWhen = 0
    /\ tmrC = 0
    /\ tmrResets = 0
    /\ tmrStops = 0
    /\ peer = NoPeer

\* ------------------------------------------------------------------- timer
\* The timer of run.go 41-62 is a time.Timer.  Its channel has capacity 1;
\* the runtime sends the expiry on it without blocking; Reset and Stop start
\* and stop the timer and leave the channel as it is.
\* time.NewTimer(d): a running timer with an empty channel of capacity 1.
NewTimer(d) ==
    /\ tmrCreated' = tmrCreated + 1
    /\ tmrArmed' = TRUE
    /\ tmrWhen' = now + d
    /\ tmrC' = 0
    /\ UNCHANGED <<tmrResets, tmrStops>>

\* (*time.Timer).Reset(d): the timer runs again for d.  A value already
\* sent on the channel stays in it.
TimerReset(d) ==
    /\ tmrArmed' = TRUE
    /\ tmrWhen' = now + d
    /\ tmrResets' = tmrResets + 1
    /\ UNCHANGED <<tmrCreated, tmrC, tmrStops>>

\* (*time.Timer).Stop(): the timer no longer runs.  The channel is not
\* drained.
TimerStop ==
    /\ tmrArmed' = FALSE
    /\ tmrStops' = tmrStops + 1
    /\ UNCHANGED <<tmrCreated, tmrWhen, tmrC, tmrResets>>

\* The runtime expires a running timer whose time has come: a non-blocking
\* send on the channel.
TimerFire ==
    /\ tmrArmed
    /\ now >= tmrWhen
    /\ tmrArmed' = FALSE
    /\ tmrC' = 1
    /\ UNCHANGED <<tmrCreated, tmrWhen, tmrResets, tmrStops>>
    /\ UNCHANGED <<pc, cfgVars, ctxDone, cancelAt, now, localVars, histVars>>

\* ------------------------------------------------------------- environment
\* The wall clock advances while Run executes.
Tick ==
    /\ pc \notin {"entry", "done"}
    /\ now < MaxTime
    /\ now' = now + 1
    /\ UNCHANGED <<pc, cfgVars, ctxDone, cancelAt, localVars, histVars, timerVars>>

\* The owner of ctx cancels it, or its deadline passes, while Run executes
\* (Init covers a ctx that is done before Run is entered).  The context
\* that replaces a nil ctx, context.Background(), is never done.
Cancel ==
    /\ pc \notin {"entry", "done"}
    /\ ~ctxNil
    /\ ~ctxDone
    /\ ctxDone' = TRUE
    /\ cancelAt' = IF pc = "select" THEN "select" ELSE "running"
    /\ UNCHANGED <<pc, cfgVars, now, localVars, histVars, timerVars>>

\* --------------------------------------------------------------------- Run
\* Return without the deferred tmr.Stop().
ReturnWithoutStop(e, why) ==
    /\ pc' = "done"
    /\ ret' = e
    /\ exit' = why
    /\ UNCHANGED timerVars

\* A return statement of Run, followed by the deferred tmr.Stop().
Return(e, why) ==
    /\ pc' = "done"
    /\ ret' = e
    /\ exit' = why
    /\ TimerStop

\* Entry with the attempt counter starting at 1.
EntryStartsAtOne ==
    /\ pc = "entry"
    /\ NewTimer(0)
    /\ start' = now
    /\ attempt' = 1
    /\ pc' = "call"
    /\ UNCHANGED <<cfgVars, ctxDone, cancelAt, now, err, wait, ret, exit, histVars>>

\* run.go 98-111: the statements before the loop.
Entry ==
    /\ pc = "entry"
    /\ NewTimer(0)
    /\ start' = now
    /\ attempt' = 0
    /\ pc' = "call"
    /\ UNCHANGED <<cfgVars, ctxDone, cancelAt, now, err, wait, ret, exit, histVars>>

\* Classify with the nil test left out: a nil result counts as a failure.
ClassifyRetriesNil(e) ==
    IF ErrorsIs(e, Canceled) \/ ErrorsIs(e, DeadlineExceeded) THEN "ctxerr"
    ELSE IF IsErrorStop(e) THEN "errorstop"
    ELSE "retry"

\* Classify with the test for context.DeadlineExceeded left out.
ClassifyCanceledOnly(e) ==
    IF e = Nil THEN "success"
    ELSE IF ErrorsIs(e, Canceled) THEN "ctxerr"
    ELSE IF IsErrorStop(e) THEN "errorstop"
    ELSE "retry"

\* The classification of a filtered result: run.go 114-129.
Classify(e) ==
    IF e = Nil THEN "success"
    ELSE IF ErrorsIs(e, Canceled) \/ ErrorsIs(e, DeadlineExceeded) THEN "ctxerr"
    ELSE IF IsErrorStop(e) THEN "errorstop"
    ELSE "retry"

\* run.go 117: attempt++ on a uint.
NextAttempt(a) == (a + 1) % UintMod

\* Unwrapped annotating the error it takes out of the errorStop.
UnwrappedAnnotates(e) == Wrapf(Tail(e))

\* Unwrapped returning the errorStop itself.
UnwrappedKeepsWrapper(e) == e

\* run.go 128: err.err, the error an errorStop holds.
Unwrapped(e) == Tail(e)

\* CallOpBody classifying what op returned instead of what the filter made
\* of it.
CallOpBodyClassifiesUnfiltered(r) ==
    LET e == ApplyFilter(filter, r)
        c == Classify(r)
    IN  /\ pc = "call"
        /\ opCount' = Bump(opCount)
        /\ err' = e
        /\ attempt' = IF c = "success" THEN attempt ELSE NextAttempt(attempt)
        /\ CASE c = "success" -> Return(Nil, "success")
             [] c = "ctxerr" -> Return(e, "ctxerr")
             [] c = "errorstop" -> Return(Unwrapped(e), "errorstop")
             [] c = "retry" ->
                    /\ pc' = "policy"
                    /\ UNCHANGED <<ret, exit, timerVars>>
        /\ UNCHANGED <<cfgVars, ctxDone, cancelAt, now, start, wait,
                       waitCalls, lastQuery, notifyLog>>

\* run.go 113-129: one invocation of filterOp, op returning r, and the
\* classification of its result.
CallOpBody(r) ==
    LET e == ApplyFilter(filter, r)
        c == Classify(e)
    IN  /\ pc = "call"
        /\ opCount' = Bump(opCount)
        /\ err' = e
        /\ attempt' = IF c = "success" THEN attempt ELSE NextAttempt(attempt)
        /\ CASE c = "success" -> Return(Nil, "success")
             [] c = "ctxerr" -> Return(e, "ctxerr")
             [] c = "errorstop" -> Return(Unwrapped(e), "errorstop")
             [] c = "retry" ->
                    /\ pc' = "policy"
                    /\ UNCHANGED <<ret, exit, timerVars>>
        /\ UNCHANGED <<cfgVars, ctxDone, cancelAt, now, start, wait,
                       waitCalls, lastQuery, notifyLog>>

CallOp == opCount < MaxOps /\ \E r \in OpResults : CallOpBody(r)

\* GiveUp comparing for equality with Stop.
GiveUpOnlyOnStop(w) == w = Stop

\* The test that makes Run give up: run.go 133.
GiveUp(w) == w <= Stop

\* run.go 132-135: the policy is asked for the next wait.
QueryPolicy ==
    LET total == now - start
        w == Wait(p, attempt, total)
    IN  /\ pc = "policy"
        /\ waitCalls' = Bump(waitCalls)
        /\ lastQuery' = <<attempt, total>>
        /\ wait' = w
        /\ IF GiveUp(w)
           THEN Return(err, "policystop")
           ELSE /\ pc' = "notify"
                /\ UNCHANGED <<ret, exit, timerVars>>
        /\ UNCHANGED <<cfgVars, ctxDone, cancelAt, now, start, attempt, err,
                       opCount, notifyLog>>

\* Notify without the zero-wait shortcut.
NotifyAlwaysRearms ==
    /\ pc = "notify"
    /\ notifyLog' = IF hasNotify
                    THEN Record(notifyLog, <<err, attempt, wait>>)
                    ELSE notifyLog
    /\ pc' = "rearm"
    /\ UNCHANGED <<cfgVars, ctxDone, cancelAt, now, localVars,
                   opCount, waitCalls, lastQuery, timerVars>>

\* Notify with the zero-wait shortcut inside the `if notify != nil` block.
NotifyGatesShortcut ==
    /\ pc = "notify"
    /\ notifyLog' = IF hasNotify
                    THEN Record(notifyLog, <<err, attempt, wait>>)
                    ELSE notifyLog
    /\ pc' = IF wait = 0 /\ hasNotify THEN "call" ELSE "rearm"
    /\ UNCHANGED <<cfgVars, ctxDone, cancelAt, now, localVars,
                   opCount, waitCalls, lastQuery, timerVars>>

\* Notify with the zero-wait shortcut taken before notify is called.
NotifySkipsZeroWait ==
    /\ pc = "notify"
    /\ notifyLog' = IF hasNotify /\ wait # 0
                    THEN Record(notifyLog, <<err, attempt, wait>>)
                    ELSE notifyLog
    /\ pc' = IF wait = 0 THEN "call" ELSE "rearm"
    /\ UNCHANGED <<cfgVars, ctxDone, cancelAt, now, localVars,
                   opCount, waitCalls, lastQuery, timerVars>>

\* run.go 137-144: notify, if there is one, and the shortcut for a zero wait.
Notify ==
    /\ pc = "notify"
    /\ notifyLog' = IF hasNotify
                    THEN Record(notifyLog, <<err, attempt, wait>>)
                    ELSE notifyLog
    /\ pc' = IF wait = 0 THEN "call" ELSE "rearm"
    /\ UNCHANGED <<cfgVars, ctxDone, cancelAt, now, localVars,
                   opCount, waitCalls, lastQuery, timerVars>>

\* run.go 147: tmr.Reset(wait).
Rearm ==
    /\ pc = "rearm"
    /\ TimerReset(wait)
    /\ pc' = "select"
    /\ UNCHANGED <<cfgVars, ctxDone, cancelAt, now, localVars, histVars>>

\* SelectCtx returning ctx.Err() in place of the op error.
SelectCtxReturnsCtxErr ==
    /\ pc = "select"
    /\ ctxDone
    /\ Return(Canceled, "cancelled")
    /\ UNCHANGED <<cfgVars, ctxDone, cancelAt, now, start, attempt, err, wait,
                   histVars>>

\* run.go 150-152: the select receives from ctx.Done().
SelectCtx ==
    /\ pc = "select"
    /\ ctxDone
    /\ Return(err, "cancelled")
    /\ UNCHANGED <<cfgVars, ctxDone, cancelAt, now, start, attempt, err, wait,
                   histVars>>

\* run.go 153: the select receives from tmr.GetC().
SelectTimer ==
    /\ pc = "select"
    /\ tmrC = 1
    /\ tmrC' = 0
    /\ pc' = "call"
    /\ UNCHANGED <<tmrCreated, tmrArmed, tmrWhen, tmrResets, tmrStops>>
    /\ UNCHANGED <<cfgVars, ctxDone, cancelAt, now, localVars, histVars>>

Next ==
    \/ Entry
    \/ CallOp
    \/ QueryPolicy
    \/ Notify
    \/ Rearm
    \/ SelectCtx
    \/ SelectTimer
    \/ TimerFire
    \/ Tick
    \/ Cancel

Spec == Init /\ [][Next]_vars

\* Run without the bound on op invocations, for properties of whole runs.
\* The history counters stop at MaxOps and attempt wraps as a uint does.
\* One op result of each class is enough there.
LiveOpResults == { Nil, <<"failed">>, Canceled, ErrorStop(<<"failed">>) }

CallOpLive == \E r \in LiveOpResults : CallOpBody(r)

NextLive ==
    \/ Entry
    \/ CallOpLive
    \/ QueryPolicy
    \/ Notify
    \/ Rearm
    \/ SelectCtx
    \/ SelectTimer
    \/ TimerFire
    \/ Tick
    \/ Cancel

\* Every statement of Run that can execute does, every call of op, filter,
\* p.Wait and notify returns, the runtime expires timers and the clock
\* advances.  A select with several ready cases picks among them at random,
\* so a case that is ready again and again is eventually taken.
LiveSpec ==
    /\ Init
    /\ [][NextLive]_vars
    /\ WF_vars(Entry)
    /\ WF_vars(CallOpLive)
    /\ WF_vars(QueryPolicy)
    /\ WF_vars(Notify)
    /\ WF_vars(Rearm)
    /\ SF_vars(SelectCtx)
    /\ SF_vars(SelectTimer)
    /\ WF_vars(TimerFire)
    /\ WF_vars(Tick)

\* ------------------------------------------------------ two calls of Run
\* The arguments, context, clock, locals, history and timer of the call of
\* Run whose steps are being taken.
ThisRun ==
    [pc |-> pc, filter |-> filter, hasNotify |-> hasNotify,
     ctxNil |-> ctxNil, ctxDone |-> ctxDone, cancelAt |-> cancelAt,
     now |-> now, start |-> start, attempt |-> attempt, err |-> err,
     wait |-> wait, ret |-> ret, exit |-> exit, opCount |-> opCount,
     waitCalls |-> waitCalls, lastQuery |-> lastQuery,
     notifyLog |-> notifyLog, tmrCreated |-> tmrCreated,
     tmrArmed |-> tmrArmed, tmrWhen |-> tmrWhen, tmrC |-> tmrC,
     tmrResets |-> tmrResets, tmrStops |-> tmrStops]

\* A call of Run about to be entered.
NewRun(f, n, cn) ==
    [pc |-> "entry", filter |-> f, hasNotify |-> n, ctxNil |-> cn,
     ctxDone |-> FALSE, cancelAt |-> "never", now |-> 0, start |-> 0,
     attempt |-> 0, err |-> Nil, wait |-> 0, ret |-> Nil, exit |-> "none",
     opCount |-> 0, waitCalls |-> 0, lastQuery |-> <<0, 0>>,
     notifyLog |-> << >>, tmrCreated |-> 0, tmrArmed |-> FALSE,
     tmrWhen |-> 0, tmrC |-> 0, tmrResets |-> 0, tmrStops |-> 0]

\* This call of Run is NewRun(f, n, cn), apart from the clock.
Fresh(f, n, cn) ==
    /\ pc = "entry"
    /\ filter = f
    /\ hasNotify = n
    /\ ctxNil = cn
    /\ ctxDone = FALSE
    /\ cancelAt = "never"
    /\ start = 0
    /\ attempt = 0
    /\ err = Nil
    /\ wait = 0
    /\ ret = Nil
    /\ exit = "none"
    /\ opCount = 0
    /\ waitCalls = 0
    /\ lastQuery = <<0, 0>>
    /\ notifyLog = << >>
    /\ tmrCreated = 0
    /\ tmrArmed = FALSE
    /\ tmrWhen = 0
    /\ tmrC = 0
    /\ tmrResets = 0
    /\ tmrStops = 0

\* The steps that follow are those of the call r; the clock is not part of
\* what is resumed.
Resume(r) ==
    /\ pc' = r.pc
    /\ filter' = r.filter
    /\ hasNotify' = r.hasNotify
    /\ ctxNil' = r.ctxNil
    /\ ctxDone' = r.ctxDone
    /\ cancelAt' = r.cancelAt
    /\ start' = r.start
    /\ attempt' = r.attempt
    /\ err' = r.err
    /\ wait' = r.wait
    /\ ret' = r.ret
    /\ exit' = r.exit
    /\ opCount' = r.opCount
    /\ waitCalls' = r.waitCalls
    /\ lastQuery' = r.lastQuery
    /\ notifyLog' = r.notifyLog
    /\ tmrCreated' = r.tmrCreated
    /\ tmrArmed' = r.tmrArmed
    /\ tmrWhen' = r.tmrWhen
    /\ tmrC' = r.tmrC
    /\ tmrResets' = r.tmrResets
    /\ tmrStops' = r.tmrStops

\* Two goroutines call Run with the same Policy value p, each with its own
\* notify and timer and a nil context; they read the same clock.
ConcOps == MaxOps - 3
ConcTime == MaxTime - 2

ConcInit ==
    /\ p \in Policies
    /\ now = 0
    /\ peer = [turn |-> "conc", run |-> NewRun("nil", TRUE, TRUE)]
    /\ Fresh("nil", TRUE, TRUE)

\* The scheduler that keeps `attempt` where it is: the two calls would share
\* one attempt counter.
ConcSwitchSharedAttempt ==
    /\ peer.turn = "conc"
    /\ peer' = [turn |-> "conc", run |-> [ThisRun EXCEPT !.now = 0]]
    /\ Resume([peer.run EXCEPT !.attempt = attempt])
    /\ UNCHANGED <<p, now>>

\* The scheduler passes from one goroutine to the other.  Everything Run
\* works on is an argument or a local of the call (run.go 93-111), so it
\* stays with the call; p and the clock are common.
ConcSwitch ==
    /\ peer.turn = "conc"
    /\ peer' = [turn |-> "conc", run |-> [ThisRun EXCEPT !.now = 0]]
    /\ Resume(peer.run)
    /\ UNCHANGED <<p, now>>

ConcCallOp == opCount < ConcOps /\ \E r \in LiveOpResults : CallOpBody(r)

ConcTick == now < ConcTime /\ Tick

ConcNext ==
    \/ Entry
    \/ ConcCallOp
    \/ QueryPolicy
    \/ Notify
    \/ Rearm
    \/ SelectTimer
    \/ TimerFire
    \/ ConcTick
    \/ ConcSwitch

ConcSpec == ConcInit /\ [][ConcNext]_vars

\* Two calls of Run with the same arguments, except that one has a notify
\* callback and the other has none, each in a world of its own (context,
\* clock, timer, op).  The one that leads takes any step; the one that
\* follows then takes a step that brings it to the same point: the same op
\* result, clock, cancellation, timer event and choice of the select.
PairInit ==
    /\ p \in Policies
    /\ now = 0
    /\ \E n \in BOOLEAN :
          /\ peer = [turn |-> "lead", run |-> NewRun("classify", ~n, FALSE)]
          /\ Fresh("classify", n, FALSE)

\* What a call of Run does and returns, its notify calls left out.
Observable(r) == [r EXCEPT !.hasNotify = FALSE, !.notifyLog = << >>]

\* The two calls are at the same point.
Related == Observable(ThisRun) = Observable(peer.run)

PairLead == peer.turn = "lead" /\ Related /\ Next

PairFollow == peer.turn = "follow" /\ ~Related /\ Next /\ Related'

\* The steps pass to the other call: to the follower once the leader has
\* taken its step, back to the leader once the follower has caught up.
PairSwitch ==
    /\ \/ peer.turn = "lead" /\ ~Related
       \/ peer.turn = "follow" /\ Related
    /\ peer' = [turn |-> IF peer.turn = "lead" THEN "follow" ELSE "lead",
                run |-> ThisRun]
    /\ Resume(peer.run)
    /\ now' = peer.run.now
    /\ UNCHANGED p

PairNext == PairLead \/ PairFollow \/ PairSwitch

PairSpec == PairInit /\ [][PairNext]_vars

\* ------------------------------------------------------- Policy.Wait alone
\* A Policy value queried directly, outside Run: p is the policy, lastQuery
\* the arguments of the latest call of p.Wait, followed by what the call
\* drew, and wait its result; pc is idle before the first call and returned
\* after a call.
Durations == {MinInt64, -3, Stop, 0, 1, 2, 3, MaxInt64}
AttemptCounts == {0, 1, 2, 3, MaxInt64 + 1, MaxInt64 + 2, UintMod - 1}
Totals == {-1, 0, 1, 2, 3, MaxInt64}
Factors == {<<0, 1>>, <<1, 2>>, <<1, 1>>, <<3, 2>>}

\* Exponential is explored with Initial >= 0 and Multiplier >= 0.
Initials == {0, 1, 2, 3, (MaxInt64 + 1) \div 2, MaxInt64}
Multipliers == {<<0, 1>>, <<1, 1>>, <<3, 2>>, <<2, 1>>, <<MaxInt64, 1>>}
\* Caps and inner policies of the two-decorator chains.
Caps == {0, 2, MaxInt64}
JitteredPolicies ==
    {Constant(Stop), Constant(0), Constant(1), Constant(3),
     Constant(MaxInt64), Linear(1, 1)}

InnerPolicies ==
    {Immediate} \cup {Constant(d) : d \in Durations}
                \cup {Linear(1, 1), Linear(MaxInt64, 1)}

PolicyTerms ==
    InnerPolicies
    \cup {Linear(i, j) : i \in Durations, j \in Durations}
    \cup {LimitAttempts(n, q) : n \in {0, 1, 2, 3, UintMod - 1},
                                q \in InnerPolicies}
    \cup {LimitTotal(d, q) : d \in Durations, q \in InnerPolicies}
    \cup {Max(d, q) : d \in Durations, q \in InnerPolicies}
    \cup {Randomize(f[1], f[2], q) : f \in Factors, q \in InnerPolicies}
    \cup {Exponential(i, m[1], m[2]) : i \in Initials, m \in Multipliers}
    \cup {Max(d, Randomize(f[1], f[2], q)) :
              d \in Caps, f \in Factors, q \in JitteredPolicies}
    \cup {Randomize(f[1], f[2], Max(d, q)) :
              d \in Caps, f \in Factors, q \in JitteredPolicies}

PolicyInit ==
    /\ pc = "idle"
    /\ p \in PolicyTerms
    /\ filter = "nil"
    /\ hasNotify = FALSE
    /\ ctxNil = TRUE
    /\ ctxDone = FALSE
    /\ cancelAt = "never"
    /\ now = 0
    /\ start = 0
    /\ attempt = 0
    /\ err = Nil
    /\ wait = 0
    /\ ret = Nil
    /\ exit = "none"
    /\ opCount = 0
    /\ waitCalls = 0
    /\ lastQuery = <<0, 0>>
    /\ notifyLog = << >>
    /\ tmrCreated = 0
    /\ tmrArmed = FALSE
    /\ tmrWhen = 0
    /\ tmrC = 0
    /\ tmrResets = 0
    /\ tmrStops = 0
    /\ peer = NoPeer

\* One call p.Wait(attempts, total).  It reads the policy and writes nothing
\* but its result.
PolicyWait ==
    /\ pc = "idle"
    /\ \E a \in AttemptCounts, t \in Totals, dr \in Draws :
          /\ wait' = WaitDraw(p, a, t, dr)
          /\ lastQuery' = <<a, t, dr>>
    /\ pc' = "returned"
    /\ UNCHANGED <<cfgVars, ctxDone, cancelAt, now, timerVars>>
    /\ UNCHANGED <<start, attempt, err, ret, exit>>
    /\ UNCHANGED <<opCount, waitCalls, notifyLog>>

PolicyNext == PolicyWait

PolicySpec == PolicyInit /\ [][PolicyNext]_vars

\* Policy values queried directly together with runs of Run.
RunOrWaitSpec == (Init \/ PolicyInit) /\ [][Next \/ PolicyNext]_vars

\* ------------------------------------------------------------------ claims
\* An error that is, or wraps through a chain of %w wrappers, one of the two
\* context errors.
IsOrWrapsCtxErr(e) ==
    /\ e # Nil
    /\ e[Len(e)] \in {"Canceled", "DeadlineExceeded"}
    /\ \A i \in 1..(Len(e) - 1) : e[i] = "wrap"

\* p.Wait has returned from a direct call.
Returned == pc = "returned"

\* The result of the policy wrapped by the decorator p for the arguments
\* and the draw of the latest call.
InnerWait == WaitDraw(p.Policy, lastQuery[1], lastQuery[2], lastQuery[3])

\* A step that invokes op.
OpInvoked == opCount' # opCount

\* A step that queries the policy.
PolicyQueried == waitCalls' # waitCalls

\* Once Run has returned, nothing of the run changes any more: no op
\* invocation, policy query, notify call or timer operation follows.
DoneIsFinal == [][pc = "done" => UNCHANGED vars]_vars

\* C1 (as stated): whenever Run has returned, it returned nil if and only if
\* the latest result of the effective callable was nil.
C1_NilIffLastResultNil ==
    pc = "done" => (ret = Nil <=> err = Nil)

\* C1 (amended): Run returns nil if and only if the latest result of the
\* effective callable was nil or an ErrorStop holding nil; and the step on
\* which the callable returns nil is the step on which Run returns nil, with
\* no policy query, notify call or timer reset, and nothing after it.
C1_NilIffLastResultNilOrStopNil ==
    /\ [](pc = "done" => (ret = Nil <=> err \in {Nil, ErrorStop(Nil)}))
    /\ [][OpInvoked /\ err' = Nil =>
            /\ pc' = "done"
            /\ ret' = Nil
            /\ UNCHANGED <<waitCalls, notifyLog, tmrResets>>]_vars
    /\ DoneIsFinal

\* Run has returned nil on the second invocation of op, after one retry.
C1_Witness ==
    /\ pc = "done"
    /\ exit = "success"
    /\ ret = Nil
    /\ opCount = 2
    /\ waitCalls = 1

\* C2: when the filtered result of an op invocation is, or wraps, a context
\* error, Run returns that value on the same step, without a policy query, a
\* notify call or a timer reset, and nothing follows.
C2_CtxErrReturnedAtOnce ==
    /\ [][OpInvoked /\ IsOrWrapsCtxErr(err') =>
            /\ pc' = "done"
            /\ ret' = err'
            /\ UNCHANGED <<waitCalls, notifyLog, tmrResets>>]_vars
    /\ DoneIsFinal

\* Run has returned a wrapped context.DeadlineExceeded from its third op
\* invocation.
C2_Witness ==
    /\ pc = "done"
    /\ ret = Wrapf(DeadlineExceeded)
    /\ err = ret
    /\ opCount = 3
    /\ waitCalls = 2

\* C3: when the filtered result of an op invocation is ErrorStop(e), Run
\* returns exactly e on the same step, without a policy query, a notify call
\* or a timer reset, and nothing follows.
C3_ErrorStopUnwrapped ==
    /\ [][OpInvoked /\ Len(err') > 0 /\ err'[1] = "stop" =>
            /\ pc' = "done"
            /\ ret' = SubSeq(err', 2, Len(err'))
            /\ UNCHANGED <<waitCalls, notifyLog, tmrResets>>]_vars
    /\ DoneIsFinal

\* Run has returned the fatal error its filter wrapped in ErrorStop, on the
\* second op invocation.
C3_Witness ==
    /\ pc = "done"
    /\ filter = "classify"
    /\ err = ErrorStop(<<"fatal">>)
    /\ ret = <<"fatal">>
    /\ opCount = 2

\* C4: when the policy answers a negative duration (Stop or less), Run
\* returns the current filtered error on the same step, without a notify
\* call, a timer reset or another op invocation, and nothing follows.
C4_NegativeWaitStops ==
    /\ [][PolicyQueried /\ wait' < 0 =>
            /\ pc' = "done"
            /\ ret' = err
            /\ UNCHANGED <<err, opCount, notifyLog, tmrResets>>]_vars
    /\ DoneIsFinal

\* Run has returned the op error after the policy answered a duration
\* below Stop.
C4_Witness ==
    /\ pc = "done"
    /\ exit = "policystop"
    /\ wait < Stop
    /\ ret = err
    /\ ret = <<"failed">>

\* C5: when Run is in the select with ctx done and no expiry buffered in the
\* timer's channel, the step by which Run leaves the select returns the
\* error of the attempt before the wait, which is no context error, and op
\* is not invoked on it or after it.
C5_CancelDuringWait ==
    /\ [][pc = "select" /\ ctxDone /\ tmrC = 0 /\ pc' # pc =>
            /\ pc' = "done"
            /\ ret' = err
            /\ ~IsOrWrapsCtxErr(ret')
            /\ UNCHANGED <<err, opCount>>]_vars
    /\ DoneIsFinal

\* ctx became done while Run was in the select, and Run returned the op
\* error before the timer, still running, expired.
C5_Witness ==
    /\ pc = "done"
    /\ cancelAt = "select"
    /\ exit = "cancelled"
    /\ tmrC = 0
    /\ tmrWhen > now
    /\ ret = <<"failed">>


\* C6: when ctx is already done as Run is entered and the policy answers a
\* positive wait to the first, retryable, failure, then as long as the
\* countdown armed for that wait has not run out, op has been invoked once,
\* notify has been called once and, if Run has returned, it returned the
\* error of that invocation.
C6_DoneAtEntryOneInvocation ==
    (/\ cancelAt = "entry"
     /\ hasNotify
     /\ Len(notifyLog) >= 1
     /\ notifyLog[1][3] > 0
     /\ tmrResets = 1
     /\ now < tmrWhen)
    => /\ opCount = 1
       /\ Len(notifyLog) = 1
       /\ (pc = "done" => ret = notifyLog[1][1])

\* C7: once ctx is done, Run eventually returns.
C7_DoneLeadsToReturn == ctxDone ~> (pc = "done")

\* The number of retryable failures so far for which the policy did not stop
\* and whose notify statement has been passed.
NotifyDue ==
    waitCalls - (IF pc = "notify" \/ exit = "policystop" THEN 1 ELSE 0)

\* C8: notify is called once for each retryable failure for which the policy
\* did not stop and never otherwise; each call comes after the policy query
\* of its attempt and before the timer is reset for it, and passes the
\* attempt's filtered error, its number and the wait the policy answered;
\* the numbers passed are 1, 2, 3, ...; a run that succeeds on its n-th op
\* invocation has made exactly n-1 calls.
C8_NotifyOncePerRetry ==
    /\ [](Len(notifyLog) = IF hasNotify THEN NotifyDue ELSE 0)
    /\ [](\A i \in 1..Len(notifyLog) : notifyLog[i][2] = i)
    /\ [](exit = "success" /\ hasNotify => Len(notifyLog) = opCount - 1)
    /\ [][notifyLog' # notifyLog =>
            /\ pc = "notify"
            /\ notifyLog' = Append(notifyLog, <<err, attempt, wait>>)
            /\ wait = Wait(p, lastQuery[1], lastQuery[2])
            /\ lastQuery[1] = attempt
            /\ waitCalls = attempt
            /\ tmrResets < attempt
            /\ UNCHANGED <<tmrResets, opCount>>]_vars

\* Run has returned nil from its fifth op invocation after four failures,
\* and notify was called four times, numbered 1 to 4, with the wait of the
\* Constant policy.
C8_Witness ==
    /\ pc = "done"
    /\ exit = "success"
    /\ p = Constant(1)
    /\ opCount = 5
    /\ Len(notifyLog) = 4
    /\ \A i \in 1..4 : notifyLog[i][2] = i /\ notifyLog[i][3] = 1

\* C9: each policy query is the next in number, is passed that number as
\* attempts, and that number is the count of op invocations so far; op
\* invocations come one at a time, from the head of the loop; at most one
\* policy query lies between two consecutive op invocations.
C9_AttemptsCountInvocations ==
    /\ [][PolicyQueried =>
            /\ waitCalls' = waitCalls + 1
            /\ lastQuery'[1] = waitCalls'
            /\ lastQuery'[1] = opCount
            /\ UNCHANGED opCount]_vars
    /\ [][OpInvoked => pc = "call" /\ opCount' = opCount + 1]_vars
    /\ [](waitCalls <= opCount /\ opCount <= waitCalls + 1)

\* The third policy query of a run has been made, with attempts = 3, after
\* three op invocations.
C9_Witness ==
    /\ waitCalls = 3
    /\ lastQuery[1] = 3
    /\ opCount = 3
    /\ pc = "notify"

\* C10: a run creates one timer, before its first op invocation; when Run
\* has returned, by whichever return statement, the timer has been stopped
\* and is not running; and a stopped timer is never reset.
C10_TimerReleased ==
    /\ [](tmrCreated = IF pc = "entry" THEN 0 ELSE 1)
    /\ [](pc = "entry" => opCount = 0)
    /\ [](pc = "done" <=> exit # "none")
    /\ [](pc = "done" => ~tmrArmed /\ tmrStops = 1)
    /\ [](pc # "done" => tmrStops = 0)
    /\ [][tmrStops > 0 => UNCHANGED <<tmrArmed, tmrWhen, tmrResets>>]_vars

\* Run has returned on a cancellation during the wait, and the deferred Stop
\* has stopped a timer that had not expired.
C10_Witness ==
    /\ pc = "done"
    /\ exit = "cancelled"
    /\ tmrResets >= 1
    /\ tmrStops = 1
    /\ ~tmrArmed
    /\ tmrWhen > now
    /\ tmrC = 0

\* C11: with the policy LimitAttempts{n, inner}, inner never stopping, op is
\* invoked at most n times; the policy query after the n-th failed invocation
\* ends the run and no earlier query does; a run ended by the policy has made
\* exactly n op invocations and n-1 notify calls and returns the error of
\* the n-th invocation.
C11_LimitAttemptsRun ==
    /\ [](p.k = "LimitAttempts" => opCount <= p.Limit)
    /\ [](p.k = "LimitAttempts" /\ exit = "policystop" =>
            /\ opCount = p.Limit
            /\ ret = err
            /\ Len(notifyLog) = IF hasNotify THEN p.Limit - 1 ELSE 0)
    /\ [][p.k = "LimitAttempts" /\ PolicyQueried =>
            (pc' = "done" <=> opCount = p.Limit)]_vars

\* Run with LimitAttempts{3, Constant} has returned "failed" after three
\* failed op invocations and two notify calls, with ctx never done.
C11_Witness ==
    /\ p = LimitAttempts(3, Constant(1))
    /\ cancelAt = "never"
    /\ exit = "policystop"
    /\ opCount = 3
    /\ Len(notifyLog) = 2
    /\ ret = <<"failed">>

\* C14: LimitAttempts{n, q}.Wait(a, t) is Stop for every a >= n and is
\* q.Wait(a, t) for every a < n.
C14_LimitAttemptsWait ==
    Returned /\ p.k = "LimitAttempts" =>
        wait = IF lastQuery[1] >= p.Limit THEN Stop ELSE InnerWait

\* LimitAttempts{2, Constant(3)}.Wait(2, t) has returned Stop.
C14_Witness ==
    /\ Returned
    /\ p = LimitAttempts(2, Constant(3))
    /\ lastQuery[1] = 2
    /\ wait = Stop

\* C15: LimitTotal{T, q}.Wait(a, t) is Stop for every t >= T and is
\* q.Wait(a, t) for every t < T; and in Run, the policy query made after a
\* failed attempt when the elapsed time is at least T ends the run, which
\* returns that attempt's error without a notify call or a timer reset.
C15_LimitTotalWait ==
    /\ [](Returned /\ p.k = "LimitTotal" =>
            wait = IF lastQuery[2] >= p.Limit THEN Stop ELSE InnerWait)
    /\ [][p.k = "LimitTotal" /\ PolicyQueried /\ now - start >= p.Limit =>
            /\ pc' = "done"
            /\ exit' = "policystop"
            /\ ret' = err
            /\ notifyLog' = notifyLog
            /\ tmrResets' = tmrResets]_vars

\* Run with LimitTotal{2, Constant} has been ended by the policy query of
\* its second failed attempt, made at elapsed time 2 or later, after one
\* notify call.
C15_Witness ==
    /\ p = LimitTotal(2, Constant(1))
    /\ hasNotify
    /\ exit = "policystop"
    /\ lastQuery[1] = 2
    /\ lastQuery[2] >= 2
    /\ Len(notifyLog) = 1
    /\ ret = <<"failed">>

\* C16: Max{cap, q}.Wait(a, t) is the smaller of cap and q.Wait(a, t)
\* whenever q.Wait(a, t) is positive, for every cap.
C16_MaxIsMin ==
    Returned /\ p.k = "Max" /\ InnerWait > 0 =>
        wait = IF p.Cap < InnerWait THEN p.Cap ELSE InnerWait

\* Max{2, Constant(3)}.Wait has returned the cap.
C16_Witness ==
    /\ Returned
    /\ p = Max(2, Constant(3))
    /\ wait = 2

\* C17 (as stated): for every Cap, Max.Wait never returns more than the inner
\* result, and returns an inner result of 0 or Stop unchanged.
C17_MaxOnlyClampsDownward ==
    Returned /\ p.k = "Max" =>
        /\ wait <= InnerWait
        /\ InnerWait \in {0, Stop} => wait = InnerWait

\* C17 (amended): for every Cap, Max.Wait never returns more than the inner
\* result; for every Cap >= 0 it returns an inner result of 0 or Stop
\* unchanged.
C17_MaxOnlyClampsDownwardNonNegativeCap ==
    Returned /\ p.k = "Max" =>
        /\ wait <= InnerWait
        /\ p.Cap >= 0 /\ InnerWait \in {0, Stop} => wait = InnerWait

\* Max{0, Constant(Stop)}.Wait has returned Stop.
C17_Witness ==
    /\ Returned
    /\ p = Max(0, Constant(Stop))
    /\ wait = Stop

\* C18: Randomize{f, q}.Wait(a, t) is q.Wait(a, t) whenever that is 0, Stop
\* or any other value <= 0, whatever is drawn.
C18_RandomizePassesNonPositive ==
    Returned /\ p.k = "Randomize" /\ InnerWait <= 0 => wait = InnerWait

\* Randomize{1/2, Constant(Stop)}.Wait has returned Stop.
C18_Witness ==
    /\ Returned
    /\ p = Randomize(1, 2, Constant(Stop))
    /\ wait = Stop

\* C19: for a factor f in [0, 1] and a positive inner result w,
\* Randomize{f, q}.Wait returns a value that is not negative, not above the
\* largest duration, at least w * (1 - f) and at most w * (1 + f).
C19_RandomizeWithinRange ==
    Returned /\ p.k = "Randomize" /\ InnerWait > 0
             /\ 0 <= p.Factor[1] /\ p.Factor[1] <= p.Factor[2] =>
        /\ wait >= 0
        /\ wait <= MaxInt64
        /\ InnerWait * (p.Factor[2] - p.Factor[1]) <= wait * p.Factor[2]
        /\ wait * p.Factor[2] <= InnerWait * (p.Factor[2] + p.Factor[1])

\* C20: for attempts >= 1, Linear.Wait(attempts, t) is
\* Initial + (attempts - 1) * Increment when that is a value of the duration
\* type, and the largest duration otherwise.
C20_LinearSaturates ==
    Returned /\ p.k = "Linear" /\ lastQuery[1] >= 1 =>
        wait = IF InInt64(p.Initial + (lastQuery[1] - 1) * p.Increment)
               THEN p.Initial + (lastQuery[1] - 1) * p.Increment
               ELSE MaxInt64

\* What holds of a call r of Run with policy p at every point of a run made
\* alone: attempt counts the failed op invocations; the policy has been
\* queried once per retryable failure, the latest time with attempts = that
\* count, and wait is what p.Wait answers for the arguments it was given;
\* notify has been called once per query that did not stop, numbered 1, 2,
\* ..., with a wait p.Wait answers for that number; the value returned is
\* the one the return statement taken yields; there is one timer, reset at
\* most once per query.
RunConsistent(r) ==
    /\ r.attempt = r.opCount - (IF r.exit = "success" THEN 1 ELSE 0)
    /\ r.waitCalls = r.attempt -
          (IF r.pc = "policy" \/ r.exit \in {"ctxerr", "errorstop"}
           THEN 1 ELSE 0)
    /\ r.waitCalls > 0 =>
          /\ r.lastQuery[1] = r.waitCalls
          /\ r.lastQuery[2] \in 0 .. ConcTime
          /\ r.wait = Wait(p, r.lastQuery[1], r.lastQuery[2])
    /\ Len(r.notifyLog) = r.waitCalls -
          (IF r.pc = "notify" \/ r.exit = "policystop" THEN 1 ELSE 0)
    /\ \A i \in 1 .. Len(r.notifyLog) :
          /\ r.notifyLog[i][2] = i
          /\ \E t \in 0 .. ConcTime : r.notifyLog[i][3] = Wait(p, i, t)
    /\ r.pc = "done" =>
          r.ret = CASE r.exit = "success" -> Nil
                    [] r.exit = "errorstop" -> Unwrapped(r.err)
                    [] OTHER -> r.err
    /\ r.tmrCreated = IF r.pc = "entry" THEN 0 ELSE 1
    /\ r.tmrResets <= r.waitCalls

\* C12: two calls of Run that share one Policy value, interleaved in every
\* way, each have at every point the attempt numbering, policy results,
\* notify calls and returned value of a call made alone.
C12_ConcurrentRunsIndependent ==
    RunConsistent(ThisRun) /\ RunConsistent(peer.run)

\* With the shared policy Constant, one call is at its notify statement for
\* its first failure while the other waits in the select after its second.
C12_Witness ==
    /\ peer.turn = "conc"
    /\ p = Constant(1)
    /\ pc = "notify"
    /\ attempt = 1
    /\ peer.run.pc = "select"
    /\ peer.run.attempt = 2
    /\ Len(peer.run.notifyLog) = 2

\* C13: whatever step the call of Run with (or without) a notify callback
\* takes, the call without (or with) one, being at the same point, can take
\* a step to the same point again: the same op invocations, policy queries,
\* waits and returned value, the notify calls apart.
C13_NotifyIsSideChannel ==
    peer.turn = "follow" /\ ~Related => ENABLED PairFollow

\* Both calls have returned "failed" after three op invocations under
\* LimitAttempts{3, Constant}; the one with the callback made two notify
\* calls, the other none.
C13_Witness ==
    /\ peer.turn = "follow"
    /\ Related
    /\ p = LimitAttempts(3, Constant(1))
    /\ pc = "done"
    /\ opCount = 3
    /\ ret = <<"failed">>
    /\ Len(notifyLog) + Len(peer.run.notifyLog) = 2

\* initial * (mn/md)^n for initial >= 0 and mn/md >= 1, as num/den times the
\* n factors still to come: its integer part when that is a duration, the
\* largest duration when it is not.
RECURSIVE SaturatingPower(_, _, _, _, _)
SaturatingPower(num, den, n, mn, md) ==
    IF num = 0 THEN 0
    ELSE IF num >= (MaxInt64 + 1) * den THEN MaxInt64
    ELSE IF n = 0 THEN Trunc(num, den)
    ELSE SaturatingPower(num * mn, den * md, n - 1, mn, md)

\* C21: for attempts >= 1, Initial >= 0 and Multiplier >= 1,
\* Exponential.Wait(attempts, t) is Initial * Multiplier^(attempts-1) when
\* that is a duration and the largest duration when it is not.
C21_ExponentialSaturates ==
    Returned /\ p.k = "Exponential" /\ lastQuery[1] >= 1
             /\ p.Initial >= 0 /\ p.Multiplier[1] >= p.Multiplier[2] =>
        wait = SaturatingPower(p.Initial, 1, lastQuery[1] - 1,
                               p.Multiplier[1], p.Multiplier[2])

\* The running product initial * (mn/md)^k at the smallest k <= n at which
\* it is zero or exceeds the largest duration divided by the multiplier, or
\* at k = n, as <<numerator, denominator>>.
RECURSIVE RunningProduct(_, _, _, _, _)
RunningProduct(num, den, n, mn, md) ==
    IF n = 0 \/ num = 0 \/ num * mn > MaxInt64 * md * den
    THEN <<num, den>>
    ELSE RunningProduct(num * mn, den * md, n - 1, mn, md)

\* C22: Exponential.Wait(attempts, t) is the running product at which the
\* loop stops, which is never above the largest duration; and for
\* Initial >= 0 and Multiplier >= 1 the result for attempts is not below the
\* result for attempts - 1.
C22_ExponentialStopsEarly ==
    Returned /\ p.k = "Exponential" /\ lastQuery[1] >= 1 =>
        LET pr == RunningProduct(p.Initial, 1, lastQuery[1] - 1,
                                 p.Multiplier[1], p.Multiplier[2])
        IN  /\ pr[1] <= MaxInt64 * pr[2]
            /\ wait = Trunc(pr[1], pr[2])
            /\ p.Multiplier[1] >= p.Multiplier[2] /\ lastQuery[1] >= 2 =>
                  wait >= WaitDraw(p, lastQuery[1] - 1, lastQuery[2],
                                   lastQuery[3])

\* C23: with ctx not done, the step by which Run leaves the select for the
\* next op invocation is taken only when the time the timer was reset to
\* expire at has come.
C23_WaitRunsItsFullLength ==
    [][pc = "select" /\ pc' = "call" /\ ~ctxDone => now >= tmrWhen]_vars

C25_FilteredResultDecides ==
    /\ [][OpInvoked =>
            /\ \E r \in OpResults : err' = ApplyFilter(filter, r)
            /\ CASE Classify(err') = "success" ->
                        pc' = "done" /\ exit' = "success" /\ ret' = Nil
                 [] Classify(err') = "ctxerr" ->
                        pc' = "done" /\ exit' = "ctxerr" /\ ret' = err'
                 [] Classify(err') = "errorstop" ->
                        pc' = "done" /\ exit' = "errorstop"
                                     /\ ret' = Tail(err')
                 [] Classify(err') = "retry" -> pc' = "policy"]_vars
    /\ [](filter = "strict" =>
            exit # "success" /\ (opCount > 0 => err # Nil))
    /\ [](filter = "classify" =>
            /\ err \notin {<<"fatal">>, DeadlineExceeded,
                           Wrapf(DeadlineExceeded)}
            /\ exit = "ctxerr" => ErrorsIs(err, Canceled))

\* The filter wrapped op's fatal error in ErrorStop and Run returned the
\* fatal error from its second op invocation.
C25_Witness ==
    /\ filter = "classify"
    /\ exit = "errorstop"
    /\ opCount = 2
    /\ err = ErrorStop(<<"fatal">>)
    /\ ret = <<"fatal">>

\* C26: err changes only when op is invoked; a value Run returned is nil,
\* err, or what the errorStop in err holds; a run that returned because ctx
\* was done while it waited returned err, which is no context error.
C26_ReturnsLatestFilteredResult ==
    /\ [][err' # err => OpInvoked]_vars
    /\ [](pc = "done" /\ ret # Nil =>
            \/ ret = err
            \/ IsErrorStop(err) /\ ret = Tail(err))
    /\ [](exit = "cancelled" => ret = err /\ ~IsOrWrapsCtxErr(ret))

\* After a first attempt that failed with "failed", Run returned the error
\* "fatal" of its second attempt when the policy stopped.
C26_Witness ==
    /\ filter = "nil"
    /\ hasNotify
    /\ exit = "policystop"
    /\ opCount = 2
    /\ notifyLog[1][1] = <<"failed">>
    /\ ret = <<"fatal">>

\* C27: for Cap >= 0 and a factor in [0, 1], Max{Cap, Randomize{f, q}}.Wait
\* is never above Cap; Randomize{f, Max{Cap, q}}.Wait, with m the smaller of
\* Cap and q.Wait, is m when m <= 0 and otherwise at least m * (1 - f) and
\* at most m * (1 + f).
C27_DecoratorOrder ==
    /\ (Returned /\ p.k = "Max" /\ p.Policy.k = "Randomize" /\ p.Cap >= 0
            /\ p.Policy.Factor[1] <= p.Policy.Factor[2]
        => wait <= p.Cap)
    /\ (Returned /\ p.k = "Randomize" /\ p.Policy.k = "Max"
            /\ p.Policy.Cap >= 0 /\ p.Factor[1] <= p.Factor[2]
        => LET w == Wait(p.Policy.Policy, lastQuery[1], lastQuery[2])
               m == IF p.Policy.Cap < w THEN p.Policy.Cap ELSE w
           IN  IF m <= 0 THEN wait = m
               ELSE /\ m * (p.Factor[2] - p.Factor[1]) <= wait * p.Factor[2]
                    /\ wait * p.Factor[2] <= m * (p.Factor[2] + p.Factor[1]))

====
